---- MODULE Spec2Model ----
(***************************************************************************)
(* Model of cls_generator.py: the CLSColor / CLSGenerator palette objects  *)
(* and the .cls binary codec (CLSGenerator.save and load_cls).             *)
(*                                                                         *)
(* Text is a sequence of Unicode code points, a file is a sequence of      *)
(* bytes (0..255).  The text codecs (str.encode / bytes.decode) and the    *)
(* struct.pack / struct.unpack formats are computed, not assumed.          *)
(***************************************************************************)
EXTENDS Integers, Sequences, FiniteSets, TLC

VARIABLES name, colors, file, call, outcome, reads

vars == <<name, colors, file, call, outcome, reads>>

---------------------------------------------------------------------------
(* Bounds of the model.                                                    *)

MaxNameLen == 2

MaxColors == 2

MaxTamperLen == 56

---------------------------------------------------------------------------
(* struct formats and small helpers.                                       *)

U16Max == 65535

Min(a, b) == IF a < b THEN a ELSE b

Max(a, b) == IF a > b THEN a ELSE b

RECURSIVE Pow256(_)
Pow256(k) == IF k = 0 THEN 1 ELSE 256 * Pow256(k - 1)

\* the big-endian bytes of n in w bytes (a faulty variant, for C3)
PackBE(n, w) == [i \in 1..w |-> (n \div Pow256(w - i)) % 256]

\* the little-endian bytes of n in w bytes: struct.pack('<H', n), w = 2, and
\* struct.pack('<I', n), w = 4 (for n in the format's range)
PackLE(n, w) == [i \in 1..w |-> (n \div Pow256(i - 1)) % 256]

\* struct.unpack('<H', b)[0] and struct.unpack('<I', b)[0] on a full buffer
RECURSIVE UnpackLE(_)
UnpackLE(b) == IF Len(b) = 0 THEN 0 ELSE b[1] + 256 * UnpackLE(Tail(b))

\* struct.unpack('<I', b)[0] kept exact up to cap and cap above it (the
\* integers of the model checker have 32 bits with the sign)
RECURSIVE UnpackCapped(_, _)
UnpackCapped(b, cap) ==
    IF Len(b) = 0 THEN 0
    ELSE Min(cap, 256 * UnpackCapped(Tail(b), cap) + b[1])

\* b'SLCC'
SLCC == <<83, 76, 67, 67>>

---------------------------------------------------------------------------
(* Text codecs.                                                            *)

\* the placeholder of str.encode('ascii', errors='replace'): '?'
Placeholder == 63

\* the replacement character of bytes.decode(errors='replace'): U+FFFD
Replacement == 65533

IsSurrogate(cp) == cp >= 55296 /\ cp <= 57343

\* name.encode('ascii', errors='ignore') (a faulty variant, for C6)
AsciiEncodeIgnore(s) == SelectSeq(s, LAMBDA cp : cp < 128)

\* name.encode('ascii', errors='replace'): one byte per code point
AsciiEncode(s) == [i \in 1..Len(s) |-> IF s[i] < 128 THEN s[i] ELSE Placeholder]

\* bytes.decode('ascii', errors='replace'): one code point per byte
AsciiDecode(b) == [i \in 1..Len(b) |-> IF b[i] < 128 THEN b[i] ELSE Replacement]

\* the UTF-8 bytes of one code point that is not a surrogate
Utf8Char(cp) ==
    IF cp < 128 THEN <<cp>>
    ELSE IF cp < 2048 THEN <<192 + (cp \div 64), 128 + (cp % 64)>>
    ELSE IF cp < 65536 THEN
        <<224 + (cp \div 4096), 128 + ((cp \div 64) % 64), 128 + (cp % 64)>>
    ELSE <<240 + (cp \div 262144), 128 + ((cp \div 4096) % 64),
           128 + ((cp \div 64) % 64), 128 + (cp % 64)>>

\* name.encode('utf-8') raises UnicodeEncodeError on a lone surrogate
Utf8Encodable(s) == \A i \in 1..Len(s) : ~IsSurrogate(s[i])

\* name.encode('utf-8'), for an encodable name (split in halves, so that a
\* long name needs a shallow recursion only)
RECURSIVE Utf8Encode(_)
Utf8Encode(s) ==
    IF Len(s) = 0 THEN <<>>
    ELSE IF Len(s) = 1 THEN Utf8Char(s[1])
    ELSE LET h == Len(s) \div 2
         IN  Utf8Encode(SubSeq(s, 1, h)) \o Utf8Encode(SubSeq(s, h + 1, Len(s)))

IsCont(b) == b >= 128 /\ b <= 191

\* the range allowed for the second byte after lead byte b
SecondOk(b, c) ==
    IF b = 224 THEN c >= 160 /\ c <= 191
    ELSE IF b = 237 THEN c >= 128 /\ c <= 159
    ELSE IF b = 240 THEN c >= 144 /\ c <= 191
    ELSE IF b = 244 THEN c >= 128 /\ c <= 143
    ELSE IsCont(c)

\* the number of bytes of the sequence that lead byte b starts (0: no lead)
Utf8Need(b) ==
    IF b < 128 THEN 1
    ELSE IF b >= 194 /\ b <= 223 THEN 2
    ELSE IF b >= 224 /\ b <= 239 THEN 3
    ELSE IF b >= 240 /\ b <= 244 THEN 4
    ELSE 0

\* how many bytes at b[i..] form a valid prefix of the sequence led by b[i]
Utf8Good(b, i) ==
    LET need == Utf8Need(b[i])
        has(k) == i + k <= Len(b)
    IN  IF need <= 1 THEN 1
        ELSE IF ~has(1) \/ ~SecondOk(b[i], b[i + 1]) THEN 1
        ELSE IF need = 2 THEN 2
        ELSE IF ~has(2) \/ ~IsCont(b[i + 2]) THEN 2
        ELSE IF need = 3 THEN 3
        ELSE IF ~has(3) \/ ~IsCont(b[i + 3]) THEN 3
        ELSE 4

\* the code point of the complete sequence of n bytes at b[i..]
Utf8Value(b, i, n) ==
    IF n = 1 THEN b[i]
    ELSE IF n = 2 THEN (b[i] - 192) * 64 + (b[i + 1] - 128)
    ELSE IF n = 3 THEN
        (b[i] - 224) * 4096 + (b[i + 1] - 128) * 64 + (b[i + 2] - 128)
    ELSE (b[i] - 240) * 262144 + (b[i + 1] - 128) * 4096
         + (b[i + 2] - 128) * 64 + (b[i + 3] - 128)

\* bytes.decode('utf-8', errors='replace'): an invalid or cut sequence gives
\* one U+FFFD for its valid prefix (at least one byte)
RECURSIVE Utf8DecodeFrom(_, _)
Utf8DecodeFrom(b, i) ==
    IF i > Len(b) THEN <<>>
    ELSE LET need == Utf8Need(b[i])
             good == Utf8Good(b, i)
         IN  IF need > 0 /\ good = need
             THEN <<Utf8Value(b, i, need)>> \o Utf8DecodeFrom(b, i + need)
             ELSE <<Replacement>> \o Utf8DecodeFrom(b, i + good)

Utf8Decode(b) == Utf8DecodeFrom(b, 1)

---------------------------------------------------------------------------
(* CLSColor and the palette operations of CLSGenerator.                    *)

\* a clamp without the upper bound (a faulty variant, for C7)
ClampNoUpper(v) == Max(0, v)

\* max(0, min(255, v))

Clamp(v) == Max(0, Min(255, v))

\* CLSColor.__init__
CLSColor(r, g, b, a) == [r |-> Clamp(r), g |-> Clamp(g), b |-> Clamp(b), a |-> Clamp(a)]

\* an insertion at the front (a faulty variant, for C8)
Prepended(cols, c) == <<c>> \o cols

\* self.colors.append(color)

Appended(cols, c) == Append(cols, c)

\* hex_color.lstrip('#')
RECURSIVE LStripHash(_)
LStripHash(s) == IF Len(s) > 0 /\ s[1] = "#" THEN LStripHash(Tail(s)) ELSE s

HexDigits ==
    [c \in {"0", "1", "2", "3", "4", "5", "6", "7", "8", "9"} |->
        CASE c = "0" -> 0 [] c = "1" -> 1 [] c = "2" -> 2 [] c = "3" -> 3
          [] c = "4" -> 4 [] c = "5" -> 5 [] c = "6" -> 6 [] c = "7" -> 7
          [] c = "8" -> 8 [] c = "9" -> 9]
    @@ [c \in {"a", "A"} |-> 10] @@ [c \in {"b", "B"} |-> 11]
    @@ [c \in {"c", "C"} |-> 12] @@ [c \in {"d", "D"} |-> 13]
    @@ [c \in {"e", "E"} |-> 14] @@ [c \in {"f", "F"} |-> 15]

IsHex(c) == c \in DOMAIN HexDigits

\* int(s, 16) of a two-character string does not raise ValueError: two hex
\* digits, a sign and a digit, or a digit beside a blank
Int16Ok(s) ==
    \/ IsHex(s[1]) /\ IsHex(s[2])
    \/ s[1] \in {"+", "-", " "} /\ IsHex(s[2])
    \/ IsHex(s[1]) /\ s[2] = " "

\* int(s, 16) of a two-character string that it accepts
Int16(s) ==
    IF IsHex(s[1]) /\ IsHex(s[2]) THEN 16 * HexDigits[s[1]] + HexDigits[s[2]]
    ELSE IF s[1] = "-" THEN 0 - HexDigits[s[2]]
    ELSE IF IsHex(s[2]) THEN HexDigits[s[2]]
    ELSE HexDigits[s[1]]

---------------------------------------------------------------------------
(* CLSGenerator.save: the bytes written to the file and how the call ends. *)

\* one color of the colors section
ColorBlock(c) == PackLE(8, 4) \o <<c.r, c.g, c.b, c.a>> \o PackLE(0, 4)

RECURSIVE ColorBlocks(_)
ColorBlocks(cols) ==
    IF Len(cols) = 0 THEN <<>> ELSE ColorBlock(cols[1]) \o ColorBlocks(Tail(cols))

\* The writes happen in order into a file opened with 'wb'; a struct.error or
\* a UnicodeEncodeError ends the call and leaves what was written so far.
\* (The '<I' fields overflow only from 2^32 on: a header of 4 GiB or 357
\* million colors, which no name or palette of the model reaches.)
SaveFile(nm, cols) ==
    LET head == SLCC \o PackLE(256, 2)
    IN  IF ~Utf8Encodable(nm)
        THEN [status |-> "UnicodeEncodeError", bytes |-> head]
        ELSE
        LET ascii_name == AsciiEncode(nm)
            utf8_name == Utf8Encode(nm)
            header_length == 2 + Len(ascii_name) + 4 + 2 + Len(utf8_name)
            w1 == head \o PackLE(header_length, 4)
            w2 == w1 \o PackLE(Len(ascii_name), 2) \o ascii_name \o PackLE(0, 4)
            w3 == w2 \o PackLE(Len(utf8_name), 2) \o utf8_name
                     \o PackLE(4, 4) \o PackLE(Len(cols), 4)
            colors_data_length == Len(cols) * 12
        IN  IF Len(ascii_name) > U16Max
            THEN [status |-> "struct.error", bytes |-> w1]
            ELSE IF Len(utf8_name) > U16Max
            THEN [status |-> "struct.error", bytes |-> w2]
            ELSE [status |-> "ok",
                  bytes |-> w3 \o PackLE(colors_data_length, 4) \o ColorBlocks(cols)]

---------------------------------------------------------------------------
(* load_cls: the reads in order, each logged with its offset, the number   *)
(* of bytes asked for and the number obtained.                             *)

\* f.read(n) at offset pos: at most n bytes, fewer at the end of the file

Read(buf, pos, n) == SubSeq(buf, pos + 1, Min(pos + n, Len(buf)))

\* int.from_bytes for the 2-byte fields, which accepts a short buffer (a
\* faulty variant, for C10)
UnpackableLenient(b, w) == IF w = 2 THEN TRUE ELSE Len(b) = w

\* struct.unpack raises struct.error unless the buffer has the format's size

Unpackable(b, w) == Len(b) = w

\* a check of the first byte only (a faulty variant, for C4)
SignatureOkFirstByte(sig) == Len(sig) > 0 /\ sig[1] = SLCC[1]

\* sig != b'SLCC'

SignatureOk(sig) == sig = SLCC

\* the number of colors taken from the colors-section length (a faulty
\* variant, for C9)
ColorCountFromLength(cc, dl, cap) == UnpackCapped(dl, cap) \div 12

\* range(color_count): the number of colors to read. Every iteration reads
\* 12 bytes or raises, so a count above cap (more than the file can hold)
\* behaves as cap does.
ColorCount(cc, dl, cap) == UnpackCapped(cc, cap)

Did(field, pos, want, got) ==
    [field |-> field, at |-> pos, want |-> want, got |-> Len(got)]

\* the error swallowed and an empty palette returned (a faulty variant, for C5)
ReturnedEmpty(err, log) ==
    [status |-> "ok", name |-> <<>>, colors |-> <<>>, reads |-> log]

\* raise ValueError(...) and the struct.error of struct.unpack: no palette
Raised(err, log) == [status |-> err, name |-> <<>>, colors |-> <<>>, reads |-> log]

RECURSIVE ReadColors(_, _, _, _, _, _)
ReadColors(buf, pos, n, nm, acc, log) ==
    IF n = 0 THEN [status |-> "ok", name |-> nm, colors |-> acc, reads |-> log]
    ELSE
    LET bl == Read(buf, pos, 4)
        log1 == Append(log, Did("block_len", pos, 4, bl))
        rgba == Read(buf, pos + 4, 4)
        log2 == Append(log1, Did("rgba", pos + 4, 4, rgba))
        tz == Read(buf, pos + 8, 4)
        log3 == Append(log2, Did("trailing_zero", pos + 8, 4, tz))
    IN  IF ~Unpackable(bl, 4) THEN Raised("struct.error", log1)
        ELSE IF ~Unpackable(rgba, 4) THEN Raised("struct.error", log2)
        ELSE IF ~Unpackable(tz, 4) THEN Raised("struct.error", log3)
        ELSE ReadColors(buf, pos + 12, n - 1, nm,
                        Appended(acc, CLSColor(rgba[1], rgba[2], rgba[3], rgba[4])),
                        log3)

load_cls(buf) ==
    LET sig == Read(buf, 0, 4)
        log1 == <<Did("signature", 0, 4, sig)>>
        ver == Read(buf, 4, 2)
        log2 == Append(log1, Did("version", 4, 2, ver))
        hl == Read(buf, 6, 4)
        log3 == Append(log2, Did("header_length", 6, 4, hl))
        al == Read(buf, 10, 2)
        log4 == Append(log3, Did("ascii_name_len", 10, 2, al))
        an == Read(buf, 12, UnpackLE(al))
        log5 == Append(log4, Did("ascii_name", 12, UnpackLE(al), an))
        p1 == 12 + Len(an)
        pad == Read(buf, p1, 4)
        log6 == Append(log5, Did("zero_padding", p1, 4, pad))
        p2 == p1 + Len(pad)
        ul == Read(buf, p2, 2)
        log7 == Append(log6, Did("utf8_name_len", p2, 2, ul))
        un == Read(buf, p2 + 2, UnpackLE(ul))
        log8 == Append(log7, Did("utf8_name", p2 + 2, UnpackLE(ul), un))
        p3 == p2 + 2 + Len(un)
        ascii_name == AsciiDecode(an)
        utf8_name == Utf8Decode(un)
        nm == IF Len(utf8_name) > 0 THEN utf8_name ELSE ascii_name
        ch == Read(buf, p3, 4)
        log9 == Append(log8, Did("channels", p3, 4, ch))
        cc == Read(buf, p3 + Len(ch), 4)
        log10 == Append(log9, Did("color_count", p3 + Len(ch), 4, cc))
        dl == Read(buf, p3 + Len(ch) + Len(cc), 4)
        log11 == Append(log10, Did("colors_data_len", p3 + Len(ch) + Len(cc), 4, dl))
    IN  IF ~SignatureOk(sig) THEN Raised("ValueError", log1)
        ELSE IF ~Unpackable(ver, 2) THEN Raised("struct.error", log2)
        ELSE IF ~Unpackable(hl, 4) THEN Raised("struct.error", log3)
        ELSE IF ~Unpackable(al, 2) THEN Raised("struct.error", log4)
        ELSE IF ~Unpackable(ul, 2) THEN Raised("struct.error", log7)
        ELSE IF ~Unpackable(ch, 4) THEN Raised("struct.error", log9)
        ELSE IF ~Unpackable(cc, 4) THEN Raised("struct.error", log10)
        ELSE IF ~Unpackable(dl, 4) THEN Raised("struct.error", log11)
        ELSE ReadColors(buf, p3 + 12, ColorCount(cc, dl, Len(buf) + 1), nm, <<>>, log11)

---------------------------------------------------------------------------
(* Inputs of the model.                                                    *)

\* code points: 'A', U+00E9, U+706B, U+1F600 (one to four UTF-8 bytes) and
\* the lone surrogate U+D800
Chars == {65, 233, 28779, 128512, 55296}

ShortNames == UNION {[1..n -> Chars] : n \in 0..MaxNameLen}

\* names whose encodings do not fit the 2-byte length fields: U16Max + 1
\* times 'A', and (U16Max + 1) / 2 times U+00E9
RECURSIVE Repeated(_, _)
Repeated(cp, n) ==
    IF n = 0 THEN <<>>
    ELSE LET half == Repeated(cp, n \div 2)
         IN  half \o half \o (IF n % 2 = 1 THEN <<cp>> ELSE <<>>)

LongNames == {Repeated(65, U16Max + 1), Repeated(233, (U16Max + 1) \div 2)}

\* the names of the palettes whose life cycle is followed
PaletteNames == {<<>>, <<28779, 65>>}

\* arguments of add_color: every channel is given a value below, inside and
\* above the range
ColorArgs == {<<-5, 128, 300, 255>>, <<300, -5, 128, 0>>, <<128, 300, -5, 300>>}

\* arguments of add_color_from_hex
HexArgs ==
    {<<"0", "0", "8", "0", "F", "F">>,
     <<"#", "f", "f", "0", "0", "8", "0", "0", "0">>,
     <<"#", "#", "8", "0", "F", "F", "0", "0">>,
     <<"-", "1", "8", "0", "f", "f">>,
     <<"#", "F", "F", "F">>,
     <<"G", "G", "0", "0", "0", "0">>,
     <<>>}

AlphaArgs == {255, 300}

\* arguments of add_colors_from_list
ListArgs ==
    {<<>>, <<<<-5, 128, 300>>>>, <<<<128, 300, -5>>, <<-5, 128, 300>>>>}

\* the colors a palette can hold, and the palettes of at most MaxColors colors
StoredColors == {CLSColor(c[1], c[2], c[3], c[4]) : c \in ColorArgs}

ColorSeqs == UNION {[1..n -> StoredColors] : n \in 0..MaxColors}

Names == ShortNames \cup LongNames

\* values written over a byte of the file
PerturbVals == {0, 255}

---------------------------------------------------------------------------
(* The palette operations.                                                 *)

Called(op, args) == [op |-> op, args |-> args]

\* CLSGenerator.__init__: a named palette with no colors. The file that save
\* and load_cls are given exists and is empty.
Init ==
    /\ name \in PaletteNames
    /\ colors = <<>>
    /\ file = <<>>
    /\ call = Called("new", <<>>)
    /\ outcome = "ok"
    /\ reads = <<>>

AddColor ==
    \E c \in ColorArgs :
        /\ Len(colors) < MaxColors
        /\ colors' = Appended(colors, CLSColor(c[1], c[2], c[3], c[4]))
        /\ call' = Called("add_color", c)
        /\ outcome' = "ok"
        /\ UNCHANGED <<name, file, reads>>

\* the colors after add_color_from_hex(hex, a), and how the call ends
FromHex(cols, hex, a) ==
    LET h == LStripHash(hex)
        part(k) == SubSeq(h, 2 * k - 1, 2 * k)
    IN  IF Len(h) = 6
        THEN IF Int16Ok(part(1)) /\ Int16Ok(part(2)) /\ Int16Ok(part(3))
             THEN [status |-> "ok",
                   colors |-> Appended(cols, CLSColor(Int16(part(1)), Int16(part(2)),
                                                      Int16(part(3)), a))]
             ELSE [status |-> "ValueError", colors |-> cols]
        ELSE IF Len(h) = 8
        THEN IF Int16Ok(part(1)) /\ Int16Ok(part(2)) /\ Int16Ok(part(3))
                /\ Int16Ok(part(4))
             THEN [status |-> "ok",
                   colors |-> Appended(cols, CLSColor(Int16(part(1)), Int16(part(2)),
                                                      Int16(part(3)), Int16(part(4))))]
             ELSE [status |-> "ValueError", colors |-> cols]
        ELSE [status |-> "ok", colors |-> cols]

AddColorFromHex ==
    \E hex \in HexArgs, a \in AlphaArgs :
        LET r == FromHex(colors, hex, a)
        IN  /\ Len(r.colors) <= MaxColors
            /\ colors' = r.colors
            /\ call' = Called("add_color_from_hex", <<>>)
            /\ outcome' = r.status
            /\ UNCHANGED <<name, file, reads>>

\* for r, g, b in colors: self.add_color(r, g, b)
RECURSIVE FromList(_, _)
FromList(cols, list) ==
    IF Len(list) = 0 THEN cols
    ELSE FromList(Appended(cols, CLSColor(list[1][1], list[1][2], list[1][3], 255)),
                  Tail(list))

AddColorsFromList ==
    \E list \in ListArgs :
        /\ Len(colors) + Len(list) <= MaxColors
        /\ colors' = FromList(colors, list)
        /\ call' = Called("add_colors_from_list", <<>>)
        /\ outcome' = "ok"
        /\ UNCHANGED <<name, file, reads>>

Clear ==
    /\ colors' = <<>>
    /\ call' = Called("clear", <<>>)
    /\ outcome' = "ok"
    /\ UNCHANGED <<name, file, reads>>

Save ==
    LET s == SaveFile(name, colors)
    IN  /\ file' = s.bytes
        /\ call' = Called("save", <<>>)
        /\ outcome' = s.status
        /\ UNCHANGED <<name, colors, reads>>

\* load_cls: the palette it returns becomes the current palette; when it
\* raises, no palette is returned and the current one stays
LoadCls ==
    LET d == load_cls(file)
    IN  /\ call' = Called("load_cls", <<>>)
        /\ outcome' = d.status
        /\ reads' = d.reads
        /\ name' = IF d.status = "ok" THEN d.name ELSE name
        /\ colors' = IF d.status = "ok" THEN d.colors ELSE colors
        /\ UNCHANGED file

Next ==
    \/ AddColor
    \/ AddColorFromHex
    \/ AddColorsFromList
    \/ Clear
    \/ Save
    \/ LoadCls

Spec == Init /\ [][Next]_vars

---------------------------------------------------------------------------
(* The codec on its own: a palette is saved, a file that was written in    *)
(* full is possibly cut or overwritten in place, and the file is loaded.   *)

InitCodec ==
    /\ name \in Names
    /\ colors \in ColorSeqs
    /\ file = <<>>
    /\ call = Called("new", <<>>)
    /\ outcome = "ok"
    /\ reads = <<>>

SaveNew == call.op = "new" /\ Save

\* the file is cut after its first k bytes
Truncate ==
    \E k \in 0..(Len(file) - 1) :
        /\ call.op = "save" /\ outcome = "ok"
        /\ Len(file) <= MaxTamperLen
        /\ file' = SubSeq(file, 1, k)
        /\ call' = Called("truncate", <<k>>)
        /\ UNCHANGED <<name, colors, outcome, reads>>

\* one byte of the file is overwritten
Perturb ==
    \E pos \in 1..Len(file), v \in PerturbVals :
        /\ call.op = "save" /\ outcome = "ok"
        /\ Len(file) <= MaxTamperLen
        /\ v # file[pos]
        /\ file' = [file EXCEPT ![pos] = v]
        /\ call' = Called("perturb", <<pos, v>>)
        /\ UNCHANGED <<name, colors, outcome, reads>>

\* the fields that load_cls reads and does not use
Unvalidated ==
    {"version", "header_length", "zero_padding", "channels", "colors_data_len",
     "block_len", "trailing_zero"}

\* the positions of the bytes of buf that load_cls reads as such a field
UnvalidatedPositions(buf) ==
    LET log == load_cls(buf).reads
    IN  UNION {(log[i].at + 1)..(log[i].at + log[i].got) :
                  i \in {j \in DOMAIN log : log[j].field \in Unvalidated}}

\* every byte of every unvalidated field is overwritten with v
Scramble ==
    \E v \in PerturbVals :
        /\ call.op = "save" /\ outcome = "ok"
        /\ Len(file) <= MaxTamperLen
        /\ file' = [i \in 1..Len(file) |->
                       IF i \in UnvalidatedPositions(file) THEN v ELSE file[i]]
        /\ file' # file
        /\ call' = Called("scramble", <<v>>)
        /\ UNCHANGED <<name, colors, outcome, reads>>

LoadOnce == call.op # "load_cls" /\ LoadCls

NextCodec ==
    \/ SaveNew
    \/ Truncate
    \/ Perturb
    \/ Scramble
    \/ LoadOnce

SpecCodec == InitCodec /\ [][NextCodec]_vars

---------------------------------------------------------------------------
(* Properties.  The helpers below read a file by offsets and state the     *)
(* format on their own, without the operators that model the code.         *)

\* the n bytes of buf after its first pos bytes
FieldAt(buf, pos, n) == SubSeq(buf, pos + 1, pos + n)

\* the first n bytes of buf, or all of buf when it is shorter
FirstBytes(buf, n) == SubSeq(buf, 1, IF n < Len(buf) THEN n ELSE Len(buf))

\* a field of four bytes holds the little-endian value v (v < 2^16)
IsLE32(b, v) == b = <<v % 256, v \div 256, 0, 0>>

\* a field of two bytes holds the little-endian value v
IsLE16(b, v) == b = <<v % 256, v \div 256>>

\* a Unicode name: no code point is a surrogate
IsUnicodeText(s) == \A i \in DOMAIN s : s[i] < 55296 \/ s[i] > 57343

\* the number of bytes UTF-8 gives a code point
Utf8Width(cp) == IF cp < 128 THEN 1 ELSE IF cp < 2048 THEN 2 ELSE IF cp < 65536 THEN 3 ELSE 4

RECURSIVE Utf8Length(_)
Utf8Length(s) == IF Len(s) = 0 THEN 0 ELSE Utf8Width(s[1]) + Utf8Length(Tail(s))

\* the value a channel given v is to hold
Clamped(v) == IF v > 255 THEN 255 ELSE IF v < 0 THEN 0 ELSE v

InRange(c) == \A v \in {c.r, c.g, c.b, c.a} : v \in 0..255

\* C1: after save, for every Unicode name and every color sequence, loading
\* the file that save wrote gives a palette with the same name and the same
\* colors in the same order.
C1_RoundTrip ==
    (call.op = "save" /\ IsUnicodeText(name)) =>
        LET d == load_cls(file)
        IN  d.status = "ok" /\ d.name = name /\ d.colors = colors

\* C2: save has no error outcome, for every Unicode name and every sequence
\* of colors built by the constructor.
C2_EncodeAlwaysSucceeds ==
    (call.op = "save" /\ IsUnicodeText(name)) => outcome = "ok"

\* C3: the file that save wrote is, in this order and little-endian, 'SLCC',
\* u16 256, u32 header length = 2 + len(A) + 4 + 2 + len(U), u16 len(A), A,
\* u32 0, u16 len(U), U, u32 4, u32 N, u32 12 N, and per color u32 8, r, g,
\* b, a, u32 0; it has 10 + header length + 12 + 12 N bytes, and the lengths
\* count bytes.
C3_ByteLayout ==
    (call.op = "save" /\ outcome = "ok") =>
        LET A == AsciiEncode(name)
            U == Utf8Encode(name)
            N == Len(colors)
            hl == 2 + Len(A) + 4 + 2 + Len(U)
            o1 == 12 + Len(A)
            o2 == o1 + 6 + Len(U)
        IN  /\ Len(file) = 10 + hl + 12 + 12 * N
            /\ Len(U) = Utf8Length(name)
            /\ FieldAt(file, 0, 4) = <<83, 76, 67, 67>>
            /\ IsLE16(FieldAt(file, 4, 2), 256)
            /\ IsLE32(FieldAt(file, 6, 4), hl)
            /\ IsLE16(FieldAt(file, 10, 2), Len(A))
            /\ FieldAt(file, 12, Len(A)) = A
            /\ IsLE32(FieldAt(file, o1, 4), 0)
            /\ IsLE16(FieldAt(file, o1 + 4, 2), Len(U))
            /\ FieldAt(file, o1 + 6, Len(U)) = U
            /\ IsLE32(FieldAt(file, o2, 4), 4)
            /\ IsLE32(FieldAt(file, o2 + 4, 4), N)
            /\ IsLE32(FieldAt(file, o2 + 8, 4), 12 * N)
            /\ \A i \in 1..N :
                   FieldAt(file, o2 + 12 * i, 12) =
                       <<8, 0, 0, 0, colors[i].r, colors[i].g, colors[i].b,
                         colors[i].a, 0, 0, 0, 0>>

C3_Witness ==
    /\ call.op = "save" /\ outcome = "ok"
    /\ name = <<28779, 65>> /\ Len(colors) = 2 /\ Len(file) = 60

\* C4: loading a file whose first 4 bytes are not 'SLCC' raises the
\* bad-signature error whatever follows, after the one read of the
\* signature, and returns no palette.
C4_SignatureCheck ==
    [][(call'.op = "load_cls" /\ FirstBytes(file, 4) # <<83, 76, 67, 67>>) =>
          /\ outcome' = "ValueError"
          /\ Len(reads') = 1 /\ reads'[1].field = "signature"
          /\ name' = name /\ colors' = colors]_vars

C4_Witness ==
    /\ call.op = "load_cls" /\ outcome = "ValueError"
    /\ Len(file) > 40 /\ FirstBytes(file, 3) = <<83, 76, 67>> /\ file[4] # 67

\* the bytes that the fields declared in buf need in all (a color count of
\* 2^16 or more stands for more colors than a file of the model holds)
NeededLen(buf) ==
    IF Len(buf) < 12 THEN 12
    ELSE LET o == 12 + (buf[11] + 256 * buf[12]) + 4
         IN  IF Len(buf) < o + 2 THEN o + 2
             ELSE LET p == o + 2 + (buf[o + 1] + 256 * buf[o + 2])
                  IN  IF Len(buf) < p + 12 THEN p + 12
                      ELSE IF buf[p + 7] # 0 \/ buf[p + 8] # 0
                      THEN p + 12 + 12 * 65536
                      ELSE p + 12 + 12 * (buf[p + 5] + 256 * buf[p + 6])

IsTruncated(buf) == Len(buf) < NeededLen(buf)

\* C5: loading a correctly signed file that ends before a declared field is
\* fully readable raises the truncation error (struct.error), returns no
\* palette and reads no byte past the end of the file.
C5_Truncation ==
    [][(/\ call'.op = "load_cls"
        /\ FirstBytes(file, 4) = <<83, 76, 67, 67>>
        /\ IsTruncated(file)) =>
          /\ outcome' = "struct.error"
          /\ name' = name /\ colors' = colors
          /\ \A i \in DOMAIN reads' :
                 /\ reads'[i].got <= reads'[i].want
                 /\ reads'[i].at + reads'[i].got <= Len(file)]_vars

C5_Witness ==
    /\ call.op = "load_cls" /\ outcome = "struct.error"
    /\ \E i \in DOMAIN reads : reads[i].field = "rgba" /\ reads[i].got \in 1..3

\* C6: in the file that save wrote, the ASCII name field has one byte per
\* character of the name, the character itself when it is 7-bit ASCII and
\* '?' otherwise; the UTF-8 field holds the UTF-8 bytes of the name; and
\* loading the file gives the original name.
C6_AsciiFallback ==
    (call.op = "save" /\ outcome = "ok") =>
        LET l1 == file[11] + 256 * file[12]
            A == FieldAt(file, 12, l1)
            l2 == file[12 + l1 + 5] + 256 * file[12 + l1 + 6]
            U == FieldAt(file, 12 + l1 + 6, l2)
        IN  /\ l1 = Len(name)
            /\ \A i \in 1..l1 : A[i] = IF name[i] < 128 THEN name[i] ELSE 63
            /\ l2 = Utf8Length(name)
            /\ Utf8Decode(U) = name
            /\ load_cls(file).status = "ok"
            /\ load_cls(file).name = name

C6_Witness ==
    /\ call.op = "save" /\ outcome = "ok" /\ name = <<28779, 233>>
    /\ FieldAt(file, 12, 2) = <<63, 63>>

\* C7: every stored color has its four channels in 0..255, and add_color
\* rejects nothing: it stores 255 for a value above 255, 0 for a value below
\* 0 and the value itself otherwise.
C7_Clamping ==
    /\ \A i \in DOMAIN colors : InRange(colors[i])
    /\ call.op = "add_color" =>
           /\ outcome = "ok"
           /\ colors[Len(colors)] =
                  [r |-> Clamped(call.args[1]), g |-> Clamped(call.args[2]),
                   b |-> Clamped(call.args[3]), a |-> Clamped(call.args[4])]

C7_Witness ==
    /\ call.op = "add_color" /\ call.args = <<300, -5, 128, 0>>
    /\ colors[Len(colors)] = [r |-> 255, g |-> 0, b |-> 128, a |-> 0]

\* C8: a palette starts with no colors; add_color appends its clamped color
\* at the end and changes nothing else, clear empties the colors and keeps
\* the name, and save changes neither the name nor the colors.
C8_Lifecycle ==
    /\ call.op = "new" => colors = <<>>
    /\ [][/\ call'.op = "add_color" =>
                /\ colors' = colors \o
                       <<[r |-> Clamped(call'.args[1]), g |-> Clamped(call'.args[2]),
                          b |-> Clamped(call'.args[3]), a |-> Clamped(call'.args[4])]>>
                /\ name' = name /\ file' = file
          /\ call'.op = "clear" => colors' = <<>> /\ name' = name /\ file' = file
          /\ call'.op = "save" => colors' = colors /\ name' = name]_vars

C8_Witness ==
    /\ call.op = "add_color" /\ Len(colors) = 2 /\ colors[1] = colors[2]
    /\ colors[2] = [r |-> 255, g |-> 0, b |-> 128, a |-> 0]

\* C9: overwriting bytes of the unvalidated fields only (version, header
\* length, reserved field, channel count, colors-section length, per-color
\* block lengths and trailing fields) changes neither whether load_cls
\* succeeds nor the name and the colors it returns.
C9_PermissiveDecode ==
    [][(\/ call'.op = "scramble"
        \/ call'.op = "perturb" /\ call'.args[1] \in UnvalidatedPositions(file)) =>
          LET d0 == load_cls(file)
              d1 == load_cls(file')
          IN  d1.status = d0.status /\ d1.name = d0.name /\ d1.colors = d0.colors]_vars

C9_Witness ==
    /\ call.op = "scramble" /\ name = <<65>> /\ Len(colors) = 2
    /\ load_cls(file).status = "ok" /\ load_cls(file).colors = colors
    /\ FieldAt(file, 4, 6) = <<255, 255, 255, 255, 255, 255>>

\* the fields in the order load_cls reads them
HeaderOrder ==
    <<"signature", "version", "header_length", "ascii_name_len", "ascii_name",
      "zero_padding", "utf8_name_len", "utf8_name", "channels", "color_count",
      "colors_data_len">>

ColorOrder == <<"block_len", "rgba", "trailing_zero">>

InOrder(log) ==
    \A i \in DOMAIN log :
        log[i].field = IF i <= Len(HeaderOrder) THEN HeaderOrder[i]
                       ELSE ColorOrder[((i - Len(HeaderOrder) - 1) % 3) + 1]

IsShort(rd) == rd.got < rd.want

\* the reads of a given number of bytes whose result is checked or unpacked
IsChecked(rd) == rd.field \notin {"ascii_name", "zero_padding", "utf8_name"}

\* C10 as stated: the reads follow the fixed order, and the first read that
\* obtains fewer bytes than it needs, a name read and the reserved skip
\* included, is the last read and load_cls fails.
C10_EagerAtEveryRead ==
    call.op = "load_cls" =>
        /\ InOrder(reads)
        /\ \A i \in DOMAIN reads :
               IsShort(reads[i]) => i = Len(reads) /\ outcome # "ok"

\* C10 amended: the reads follow the fixed order; a short read of the
\* signature or of an unpacked integer or RGBA field is the last read and
\* load_cls fails there; a short read of the name bytes or of the reserved
\* skip is not detected at that read: the later reads obtain no byte and
\* load_cls fails at the next unpacked read.
C10_EagerAtUnpack ==
    call.op = "load_cls" =>
        /\ InOrder(reads)
        /\ \A i \in DOMAIN reads :
               IsShort(reads[i]) =>
                   /\ outcome # "ok"
                   /\ IsChecked(reads[i]) => i = Len(reads)
                   /\ ~IsChecked(reads[i]) =>
                          /\ i < Len(reads)
                          /\ IsChecked(reads[Len(reads)])
                          /\ \A j \in (i + 1)..Len(reads) :
                                 /\ reads[j].got = 0
                                 /\ IsChecked(reads[j]) => j = Len(reads)

C10_Witness ==
    /\ call.op = "load_cls" /\ outcome = "struct.error"
    /\ Len(reads) = 7
    /\ reads[5].field = "ascii_name" /\ reads[5].want = 2 /\ reads[5].got = 1
    /\ reads[7].field = "utf8_name_len" /\ reads[7].got = 0

====
